---- MODULE Spec2Model ----
(***************************************************************************)
(* Model of the DataPreprocessor of src/src/components/data_preprocessing.py*)
(* and of its caller src/main.py.                                           *)
(*                                                                          *)
(* A cell of the DataFrame is a record [kind, num, var]:                    *)
(*   kind = "nan"  a missing value (NaN),                                   *)
(*   kind = "str"  a non-numeric (object) value, num being its code,        *)
(*   kind = "num"  the real number num / sqrt(var), with var >= 1.          *)
(* All cells of one column share var, so an integer x is [num: x, var: 1],  *)
(* a multiple of 1/8 (the IQR bounds of integers) is [num: 8x, var: 64],    *)
(* and a z-score (x - mean)/std over m values is                            *)
(* [num: m*x - sum, var: m*sumsq - sum^2].  The arithmetic is exact; the    *)
(* rounding of float64 is not modelled.                                     *)
(***************************************************************************)
EXTENDS Integers, Sequences, FiniteSets, TLC

VARIABLES df, before, log, pc, err, caller, reported, save_path, dirs, file

vars == <<df, before, log, pc, err, caller, reported, save_path, dirs, file>>

\* ------------------------------------------------------------------ bounds
\* A loaded table has at most MaxCells cells (rows times columns).
MaxCells == 4
\* At most MaxCalls stage methods are called directly on one instance.
MaxCalls == 3

\* ------------------------------------------------------------------- cells
NaN == [kind |-> "nan", num |-> 0, var |-> 1]

Num(x) == [kind |-> "num", num |-> x, var |-> 1]

Str(code) == [kind |-> "str", num |-> code, var |-> 1]

\* pandas isnull on one cell
IsNull(c) == c.kind = "nan"

Range(s) == {s[i] : i \in 1..Len(s)}

\* ------------------------------------------------------------------- table
\* self.df: the column labels in order, and the cells of each column.
Table(columns, col) == [columns |-> columns, col |-> col]

NRows(t) == IF t.columns = <<>> THEN 0 ELSE Len(t.col[t.columns[1]])

HasColumn(t, name) == name \in Range(t.columns)

\* self.df[name] = cells: an existing column is overwritten in place, a new
\* one is appended after the last column.
SetColumn(t, name, cells) ==
    IF HasColumn(t, name)
    THEN Table(t.columns, [t.col EXCEPT ![name] = cells])
    ELSE Table(Append(t.columns, name),
               [c \in Range(t.columns) \cup {name} |->
                    IF c = name THEN cells ELSE t.col[c]])

\* ----------------------------------------------------- missing-value stage
\* Series.ffill: a missing cell takes the filled value of the row above it;
\* a missing cell in the first row has no row above and stays missing.
RECURSIVE FfillFrom(_, _, _)
FfillFrom(s, i, acc) ==
    IF i > Len(s) THEN acc
    ELSE LET v == IF ~IsNull(s[i]) THEN s[i]
                  ELSE IF i = 1 THEN NaN
                  ELSE acc[i - 1]
         IN FfillFrom(s, i + 1, Append(acc, v))

\* Faulty variant: ffill(limit=1), which fills only the first cell of a missing run.
FfillColumnLimitOne(s) ==
    [i \in 1..Len(s) |->
        IF IsNull(s[i]) /\ i > 1 THEN s[i - 1] ELSE s[i]]

\* Faulty variant: a fill that also fills the leading missing cells, with 0.
FfillColumnZeroLead(s) ==
    [i \in 1..Len(s) |->
        IF IsNull(FfillFrom(s, 1, <<>>)[i]) THEN Num(0)
        ELSE FfillFrom(s, 1, <<>>)[i]]

FfillColumn(s) == FfillFrom(s, 1, <<>>)

\* DataFrame.ffill(inplace=True): every column is forward filled.
Ffill(t) == Table(t.columns, [c \in Range(t.columns) |-> FfillColumn(t.col[c])])

\* df.isnull().sum(): the number of missing cells of each column.
MissingCount(s) == Cardinality({i \in 1..Len(s) : IsNull(s[i])})

IsnullSum(t) == [c \in Range(t.columns) |-> MissingCount(t.col[c])]

\* ---------------------------------------------------------- outlier stage
\* The non-missing numbers of a column, in row order (quantile, min and max
\* skip missing values).
RECURSIVE Dropna(_)
Dropna(s) ==
    IF s = <<>> THEN <<>>
    ELSE IF IsNull(Head(s)) THEN Dropna(Tail(s))
    ELSE <<Head(s).num>> \o Dropna(Tail(s))

RECURSIVE Insert(_, _)
Insert(x, xs) ==
    IF xs = <<>> THEN <<x>>
    ELSE IF x <= Head(xs) THEN <<x>> \o xs
    ELSE <<Head(xs)>> \o Insert(x, Tail(xs))

RECURSIVE Sort(_)
Sort(xs) == IF xs = <<>> THEN <<>> ELSE Insert(Head(xs), Sort(Tail(xs)))

\* Faulty variant: a nearest-rank quantile (interpolation='lower'), which takes the
\* sorted value at floor(h) and does not interpolate.
QuantileLowerRank(s, k) ==
    LET xs == Sort(Dropna(s))
    IN IF Len(xs) = 0 THEN NaN
       ELSE [kind |-> "num",
             num |-> 4 * xs[((k * (Len(xs) - 1)) \div 4) + 1],
             var |-> 16]

\* Series.quantile(k/4), interpolation='linear': with the n non-missing values
\* sorted, the virtual index is h = (n-1)*k/4 (0-based) and the result is
\* x[floor(h)] + (h - floor(h)) * (x[floor(h)+1] - x[floor(h)]).  The result
\* is a multiple of 1/4: the cell [num: 4*q, var: 16].  With no non-missing
\* value the result is NaN (pandas raises nothing).
Quantile(s, k) ==
    LET xs == Sort(Dropna(s))
        n == Len(xs)
        lo == (k * (n - 1)) \div 4
        r == (k * (n - 1)) % 4
    IN IF n = 0 THEN NaN
       ELSE [kind |-> "num",
             num |-> IF r = 0 THEN 4 * xs[lo + 1]
                     ELSE (4 - r) * xs[lo + 1] + r * xs[lo + 2],
             var |-> 16]

\* q3 - q1 on quarter cells; NaN propagates.
Iqr(q1, q3) ==
    IF IsNull(q1) \/ IsNull(q3) THEN NaN
    ELSE [kind |-> "num", num |-> q3.num - q1.num, var |-> 16]

\* q1 - 1.5 * iqr, a multiple of 1/8: the cell [num: 8*bound, var: 64].
LowerBound(q1, iqr) ==
    IF IsNull(q1) \/ IsNull(iqr) THEN NaN
    ELSE [kind |-> "num", num |-> 2 * q1.num - 3 * iqr.num, var |-> 64]

\* q3 + 1.5 * iqr
UpperBound(q3, iqr) ==
    IF IsNull(q3) \/ IsNull(iqr) THEN NaN
    ELSE [kind |-> "num", num |-> 2 * q3.num + 3 * iqr.num, var |-> 64]

\* Series.clip(lower, upper) on one integer cell, the result in eighths.
\* A NaN threshold does not clip (pandas turns a NaN scalar bound into
\* None); a missing cell stays missing.
ClipCell(c, lower, upper) ==
    IF IsNull(c) THEN NaN
    ELSE IF ~IsNull(lower) /\ 8 * c.num < lower.num THEN lower
    ELSE IF ~IsNull(upper) /\ 8 * c.num > upper.num THEN upper
    ELSE [kind |-> "num", num |-> 8 * c.num, var |-> 64]

Clip(s, lower, upper) == [i \in 1..Len(s) |-> ClipCell(s[i], lower, upper)]

\* Faulty variant: an early return that creates no column when 'Appliances' has no
\* non-missing value.
CapOutliersSkipEmpty(t) ==
    IF Dropna(t.col["Appliances"]) = <<>> THEN t
    ELSE LET a == t.col["Appliances"]
             q1 == Quantile(a, 1)
             q3 == Quantile(a, 3)
         IN SetColumn(t, "Appliances_capped",
                      Clip(a, LowerBound(q1, Iqr(q1, q3)),
                           UpperBound(q3, Iqr(q1, q3))))

\* Faulty variant: capping in place, which overwrites 'Appliances' itself.
CapOutliersInPlace(t) ==
    LET a == t.col["Appliances"]
        q1 == Quantile(a, 1)
        q3 == Quantile(a, 3)
        capped == Clip(a, LowerBound(q1, Iqr(q1, q3)), UpperBound(q3, Iqr(q1, q3)))
    IN SetColumn(SetColumn(t, "Appliances", capped), "Appliances_capped", capped)

\* The body of handle_outliers on a table that has an 'Appliances' column.
CapOutliers(t) ==
    LET a == t.col["Appliances"]
        q1 == Quantile(a, 1)
        q3 == Quantile(a, 3)
        iqr == Iqr(q1, q3)
        lower_bound == LowerBound(q1, iqr)
        upper_bound == UpperBound(q3, iqr)
    IN SetColumn(t, "Appliances_capped", Clip(a, lower_bound, upper_bound))

\* ---------------------------------------------------------- scaling stage
\* pd.api.types.is_numeric_dtype: a column read from CSV is numeric (int64 or
\* float64) unless some cell of it holds a non-numeric string.
IsNumericDtype(s) == \A i \in 1..Len(s) : s[i].kind # "str"

exclude_cols == {"Appliances", "Appliances_capped"}

\* Faulty variant: a selection that forgets the exclusion list.
NumericColsNoExclude(t) ==
    SelectSeq(t.columns, LAMBDA c : IsNumericDtype(t.col[c]))

\* numeric_cols of scale_features, in the order of df.columns.
NumericCols(t) ==
    SelectSeq(t.columns,
              LAMBDA c : IsNumericDtype(t.col[c]) /\ c \notin exclude_cols)

RECURSIVE SumSeq(_)
SumSeq(xs) == IF xs = <<>> THEN 0 ELSE Head(xs) + SumSeq(Tail(xs))

Squares(xs) == [i \in 1..Len(xs) |-> xs[i] * xs[i]]

\* m^2 * var_in times the population variance of the non-missing values.
ScaledVariance(s) ==
    LET xs == Dropna(s)
    IN Len(xs) * SumSeq(Squares(xs)) - SumSeq(xs) * SumSeq(xs)

\* Faulty variant: a z-score that divides by the standard deviation as it is, so a
\* constant column becomes 0/0 = NaN.
StandardScaleNoZeroGuard(s) ==
    LET xs == Dropna(s)
    IN [i \in 1..Len(s) |->
           IF IsNull(s[i]) \/ ScaledVariance(s) = 0 THEN NaN
           ELSE [kind |-> "num", num |-> Len(xs) * s[i].num - SumSeq(xs),
                 var |-> ScaledVariance(s)]]

\* StandardScaler().fit_transform on one column.  Missing cells are ignored by
\* the fit and stay missing.  A zero standard deviation is replaced by 1
\* (sklearn's _handle_zeros_in_scale), so a constant column becomes x - mean,
\* which is 0 in every row.
StandardScale(s) ==
    LET xs == Dropna(s)
        m == Len(xs)
        total == SumSeq(xs)
        d == ScaledVariance(s)
    IN [i \in 1..Len(s) |->
           IF IsNull(s[i]) THEN NaN
           ELSE IF d = 0 THEN Num(0)
           ELSE [kind |-> "num", num |-> m * s[i].num - total, var |-> d]]

\* The loop of scale_features: df[col + '_scaled'] = scaled_values[:, i] for
\* each selected column in order; scaled_values was computed from the table
\* as it was before the loop.
RECURSIVE AssignScaled(_, _, _)
AssignScaled(t, src, cols) ==
    IF cols = <<>> THEN t
    ELSE AssignScaled(SetColumn(t, Head(cols) \o "_scaled",
                                StandardScale(src.col[Head(cols)])),
                      src, Tail(cols))

ScaleTable(t) == AssignScaled(t, t, NumericCols(t))

\* ------------------------------------------------------- persistence stage
\* The save_path main.py passes, and a path in a directory that cannot be
\* written to.
MainSavePath == "data/processed/processed_energy_data_set.csv"

ReadOnlySavePath == "readonly/processed.csv"

SavePaths == {MainSavePath, ReadOnlySavePath}

Writable(path) == path = MainSavePath

\* os.path.dirname(p): it takes one positional parameter and no keyword, so a
\* call that passes a keyword argument raises TypeError.
OsPathDirname(path, kwargs) ==
    IF kwargs # {} THEN [raised |-> "TypeError", value |-> ""]
    ELSE [raised |-> "none",
          value |-> IF path = MainSavePath THEN "data/processed" ELSE "readonly"]

\* os.makedirs(name, exist_ok): creates the missing directories; an existing
\* directory raises FileExistsError unless exist_ok is given.
OsMakedirs(name, kwargs, existing) ==
    IF name \in existing /\ "exist_ok" \notin kwargs
    THEN [raised |-> "FileExistsError", dirs |-> existing]
    ELSE [raised |-> "none", dirs |-> existing \cup {name}]

\* df.to_csv(save_path): the file holds the index and every column of df.
ToCsv(t, path, old) ==
    IF Writable(path) THEN [raised |-> "none", file |-> <<t>>]
    ELSE [raised |-> "PermissionError", file |-> old]

\* save_processed_data, lines 106-107.  The argument of os.makedirs is
\* evaluated first: os.path.dirname(save_path, exist_ok=True).
SaveOutcome(t, path, existing, old) ==
    LET d == OsPathDirname(path, {"exist_ok"})
        mk == OsMakedirs(d.value, {}, existing)
        csv == ToCsv(t, path, old)
    IN IF d.raised # "none"
       THEN [raised |-> d.raised, dirs |-> existing, file |-> old]
       ELSE IF mk.raised # "none"
       THEN [raised |-> mk.raised, dirs |-> existing, file |-> old]
       ELSE [raised |-> csv.raised, dirs |-> mk.dirs, file |-> csv.file]

\* ------------------------------------------------------------- the inputs
\* The values a cell of each column of the CSV can hold.
CellsOf(name) ==
    CASE name = "Appliances" -> {NaN, Num(1), Num(9)}
      [] name = "T1" -> {NaN, Num(1), Num(2)}
      [] name = "lights" -> {NaN, Num(0), Num(1)}
      [] OTHER -> {NaN, Str(1)}

\* The headers of the CSV files read (the date column is the index).
Schemas ==
    { <<"Appliances">>, <<"T1">>, <<"T1", "Appliances">>,
      <<"Appliances", "lights", "T1">>, <<"T1", "label">> }

RECURSIVE ColumnFills(_, _)
ColumnFills(names, n) ==
    IF names = <<>> THEN {<<>>}
    ELSE {<<c>> \o rest : c \in [1..n -> CellsOf(Head(names))],
                          rest \in ColumnFills(Tail(names), n)}

IndexOf(names, c) == CHOOSE i \in 1..Len(names) : names[i] = c

TablesOf(names, n) ==
    {Table(names, [c \in Range(names) |-> fill[IndexOf(names, c)]]) :
        fill \in ColumnFills(names, n)}

\* The table of the outlier scenario: Appliances = [10, 12, 11, 100, 13, 9].
ScenarioTable ==
    Table(<<"Appliances">>,
          [c \in {"Appliances"} |->
              <<Num(10), Num(12), Num(11), Num(100), Num(13), Num(9)>>])

\* load_data: every table of at least one row within the cell budget.
InputTables ==
    {ScenarioTable} \cup
    UNION {TablesOf(names, n) : <<names, n>> \in
              {<<s, k>> \in Schemas \X (1..MaxCells) : Len(s) * k <= MaxCells}}

\* ------------------------------------------------------------ control flow
\* The methods defined in the body of class DataPreprocessor (lines 16-112).
\* run_all (line 114) is defined at module level, outside the class.
ClassMethods ==
    {"__init__", "load_data", "detect_missing_values", "handle_missing_values",
     "handle_outliers", "scale_features", "save_processed_data", "get_data"}

\* The calls of run_all in order, then its final print.
NextStage(stage) ==
    CASE stage = "detect_missing_values" -> "handle_missing_values"
      [] stage = "handle_missing_values" -> "handle_outliers"
      [] stage = "handle_outliers" -> "scale_features"
      [] stage = "scale_features" -> "save_processed_data"
      [] OTHER -> "complete"

\* Faulty variant: each call wrapped in a handler that swallows the exception.
PropagateSwallowed(raised, next) == next

\* No caller catches an exception: a raise ends the run.
Propagate(raised, next) == IF raised # "none" THEN "raised" ELSE next

\* A stage method runs as the next call of run_all, or called directly on the
\* instance (the usage example of lines 128-137).
InRunAll(stage) == pc = stage

CalledDirectly == pc = "idle" /\ caller \in {"none", "direct"} /\ Len(log) < MaxCalls

Return(stage, raised) ==
    /\ pc' = Propagate(raised, IF pc = "idle" THEN "idle" ELSE NextStage(stage))
    /\ err' = IF raised # "none" THEN raised ELSE err
    /\ caller' = IF caller = "none" THEN "direct" ELSE caller
    /\ log' = Append(log, stage)

Init ==
    /\ df \in InputTables
    /\ before = df
    /\ log = <<>>
    /\ pc = "idle"
    /\ err = "none"
    /\ caller = "none"
    /\ reported = <<>>
    /\ save_path = ""
    /\ dirs \in {{"readonly"}, {"readonly", "data/processed"}}
    /\ file = <<>>

\* main.py line 13: preprocessor.run_all(...) looks run_all up on the instance.
MainRunAll ==
    /\ pc = "idle" /\ caller = "none"
    /\ caller' = "main"
    /\ IF "run_all" \in ClassMethods
       THEN pc' = "detect_missing_values" /\ err' = err /\ save_path' = MainSavePath
       ELSE pc' = Propagate("AttributeError", "idle") /\ err' = "AttributeError"
            /\ save_path' = save_path
    /\ UNCHANGED <<df, before, log, reported, dirs, file>>

\* The module-level function run_all(self, save_path) called with an instance.
CallRunAll ==
    /\ pc = "idle" /\ caller = "none"
    /\ \E p \in SavePaths : save_path' = p
    /\ caller' = "run_all"
    /\ pc' = "detect_missing_values"
    /\ UNCHANGED <<df, before, log, err, reported, dirs, file>>

DetectMissingValues ==
    /\ InRunAll("detect_missing_values") \/ CalledDirectly
    /\ before' = df
    /\ reported' = <<IsnullSum(df)>>
    /\ Return("detect_missing_values", "none")
    /\ UNCHANGED <<df, save_path, dirs, file>>

HandleMissingValues ==
    /\ InRunAll("handle_missing_values") \/ CalledDirectly
    /\ before' = df
    /\ df' = Ffill(df)
    /\ reported' = <<IsnullSum(Ffill(df))>>
    /\ Return("handle_missing_values", "none")
    /\ UNCHANGED <<save_path, dirs, file>>

\* self.df['Appliances'] raises KeyError when the column is absent.
HandleOutliers ==
    /\ InRunAll("handle_outliers") \/ CalledDirectly
    /\ before' = df
    /\ IF HasColumn(df, "Appliances")
       THEN df' = CapOutliers(df) /\ Return("handle_outliers", "none")
       ELSE df' = df /\ Return("handle_outliers", "KeyError")
    /\ UNCHANGED <<reported, save_path, dirs, file>>

\* StandardScaler raises ValueError on a selection of no column.
ScaleFeatures ==
    /\ InRunAll("scale_features") \/ CalledDirectly
    /\ before' = df
    /\ IF NumericCols(df) # <<>>
       THEN df' = ScaleTable(df) /\ Return("scale_features", "none")
       ELSE df' = df /\ Return("scale_features", "ValueError")
    /\ UNCHANGED <<reported, save_path, dirs, file>>

SaveProcessedData ==
    /\ InRunAll("save_processed_data") \/ CalledDirectly
    /\ \E p \in (IF pc = "idle" THEN SavePaths ELSE {save_path}) :
          LET out == SaveOutcome(df, p, dirs, file)
          IN /\ save_path' = p
             /\ dirs' = out.dirs
             /\ file' = out.file
             /\ Return("save_processed_data", out.raised)
    /\ before' = df
    /\ UNCHANGED <<df, reported>>

Next ==
    \/ MainRunAll
    \/ CallRunAll
    \/ DetectMissingValues
    \/ HandleMissingValues
    \/ HandleOutliers
    \/ ScaleFeatures
    \/ SaveProcessedData

Spec == Init /\ [][Next]_vars

\* ================================================================ claims
LastStage == IF log = <<>> THEN "none" ELSE log[Len(log)]

\* Two cells denote the same value: num/sqrt(var) compared by signed squares.
SameValue(a, b) ==
    /\ a.kind = b.kind
    /\ a.kind = "str" => a.num = b.num
    /\ a.kind = "num" =>
          /\ (a.num >= 0) = (b.num >= 0)
          /\ a.num * a.num * b.var = b.num * b.num * a.var

SameColumn(s, t) ==
    Len(s) = Len(t) /\ \A i \in 1..Len(s) : SameValue(s[i], t[i])

\* The stages of run_all that transform or persist the table, as logged.
PipelineStages ==
    <<"handle_missing_values", "handle_outliers", "scale_features",
      "save_processed_data">>

TransformLog == SelectSeq(log, LAMBDA s : s # "detect_missing_values")

\* C1: when the run started by main.py's preprocessor.run_all(save_path) has
\* ended, the four stages have run exactly once each, in pipeline order.
C1_MainRunsStagesInOrder ==
    (caller = "main" /\ pc \in {"complete", "raised"}) =>
        TransformLog = PipelineStages

\* C2: after save_processed_data(save_path) with a writable save_path, no error
\* was raised, the parent directory exists and the file holds the current
\* table.
C2_SaveCreatesDirsAndWrites ==
    (LastStage = "save_processed_data" /\ Writable(save_path)) =>
        /\ err = "none"
        /\ OsPathDirname(save_path, {}).value \in dirs
        /\ file = <<df>>

\* C3: once a stage of a pipeline run has raised, the run is over: no later
\* stage is logged, the table is left as it is, and no output file exists.
C3_FailureAbortsRun ==
    /\ []((caller \in {"main", "run_all"} /\ err # "none") =>
              (pc = "raised" /\ file = <<>>))
    /\ [][(caller \in {"main", "run_all"} /\ err # "none") =>
              (log' = log /\ df' = df /\ file' = file /\ pc' = pc)]_vars

C3_Witness ==
    /\ caller = "run_all" /\ err = "KeyError" /\ pc = "raised"
    /\ log = <<"detect_missing_values", "handle_missing_values", "handle_outliers">>
    /\ file = <<>>

\* C4: handle_missing_values is idempotent: the table it leaves is the table a
\* second application would leave, with the same missing counts reported.
C4_FfillIdempotent ==
    LastStage = "handle_missing_values" =>
        Ffill(df) = df /\ reported = <<IsnullSum(Ffill(df))>>

C4_Witness ==
    /\ LastStage = "handle_missing_values"
    /\ df # before
    /\ \E c \in Range(df.columns) : MissingCount(df.col[c]) > 0

\* The nearest earlier row of s that is not missing (0 if there is none).
NearestEarlier(s, r) ==
    IF \E j \in 1..(r - 1) : ~IsNull(s[j])
    THEN CHOOSE j \in 1..(r - 1) :
            ~IsNull(s[j]) /\ \A k \in (j + 1)..(r - 1) : IsNull(s[k])
    ELSE 0

\* C5: after handle_missing_values a cell that was not missing is unchanged, a
\* missing cell with an earlier non-missing row holds the value of the nearest
\* such row, a leading missing cell is still missing; the residual counts are
\* reported and nothing is raised.
C5_FfillPostcondition ==
    LastStage = "handle_missing_values" =>
        /\ df.columns = before.columns
        /\ \A c \in Range(before.columns) :
              /\ Len(df.col[c]) = Len(before.col[c])
              /\ \A r \in 1..Len(before.col[c]) :
                    LET b == before.col[c]
                        j == NearestEarlier(b, r)
                    IN IF ~IsNull(b[r]) THEN df.col[c][r] = b[r]
                       ELSE IF j > 0 THEN df.col[c][r] = b[j]
                       ELSE IsNull(df.col[c][r])
        /\ err = "none"
        /\ reported = <<IsnullSum(df)>>

C5_Witness ==
    /\ LastStage = "handle_missing_values"
    /\ \E c \in Range(before.columns) :
          /\ Len(before.col[c]) >= 3
          /\ IsNull(before.col[c][1]) /\ ~IsNull(before.col[c][2])
          /\ IsNull(before.col[c][3])
          /\ IsNull(df.col[c][1]) /\ df.col[c][3] = before.col[c][2]

\* C6: handle_outliers computes Q1 and Q3 of 'Appliances' by linear
\* interpolation over the non-missing values, lower = Q1 - 1.5*IQR and
\* upper = Q3 + 1.5*IQR, and 'Appliances_capped' holds in every row lower if the
\* original is below lower, upper if it is above upper, the original otherwise
\* (a missing cell stays missing), so every capped value is in [lower, upper];
\* Appliances = [10, 12, 11, 100, 13, 9] gives Q1 = 10.25, Q3 = 12.75, bounds
\* [6.5, 16.5] and capped = [10, 12, 11, 16.5, 13, 9].
C6_OutlierCapping ==
    (LastStage = "handle_outliers" /\ err = "none"
        /\ Dropna(before.col["Appliances"]) # <<>>) =>
        LET a == df.col["Appliances"]
            q1 == Quantile(a, 1)
            q3 == Quantile(a, 3)
            lower8 == 2 * q1.num - 3 * (q3.num - q1.num)
            upper8 == 2 * q3.num + 3 * (q3.num - q1.num)
        IN /\ HasColumn(df, "Appliances_capped")
           /\ Len(df.col["Appliances_capped"]) = Len(a)
           /\ q1.var = 16 /\ q3.var = 16 /\ q1.num <= q3.num
           /\ \A r \in 1..Len(a) :
                 LET capped == df.col["Appliances_capped"][r]
                 IN IF IsNull(a[r]) THEN IsNull(capped)
                    ELSE /\ capped.kind = "num" /\ capped.var = 64
                         /\ lower8 <= capped.num /\ capped.num <= upper8
                         /\ capped.num =
                               IF 8 * a[r].num < lower8 THEN lower8
                               ELSE IF 8 * a[r].num > upper8 THEN upper8
                               ELSE 8 * a[r].num
           /\ a = ScenarioTable.col["Appliances"] =>
                 /\ q1.num = 41 /\ q3.num = 51
                 /\ lower8 = 52 /\ upper8 = 132
                 /\ [r \in 1..Len(a) |-> df.col["Appliances_capped"][r].num]
                       = <<80, 96, 88, 132, 104, 72>>

C6_Witness ==
    /\ LastStage = "handle_outliers" /\ err = "none"
    /\ before.col["Appliances"] = ScenarioTable.col["Appliances"]
    /\ df.col["Appliances_capped"][4] = [kind |-> "num", num |-> 132, var |-> 64]
    /\ SameValue(df.col["Appliances_capped"][1], Num(10))

\* C7 as stated: handle_outliers on an 'Appliances' column without a
\* non-missing value raises before any capping (no 'Appliances_capped' column
\* is created), and on a table without 'Appliances' it raises.
C7_EmptyColumnRaises ==
    LastStage = "handle_outliers" =>
        /\ (HasColumn(before, "Appliances")
              /\ Dropna(before.col["Appliances"]) = <<>>) =>
                 (err # "none" /\ df = before)
        /\ ~HasColumn(before, "Appliances") => (err # "none" /\ df = before)

\* C7 as amended: on an 'Appliances' column without a non-missing value
\* handle_outliers raises nothing and creates 'Appliances_capped' with every
\* cell missing; on a table without 'Appliances' it raises KeyError, creates no
\* column and ends the run.
C7_EmptyColumnCappedMissing ==
    LastStage = "handle_outliers" =>
        /\ (HasColumn(before, "Appliances")
              /\ Dropna(before.col["Appliances"]) = <<>>) =>
                 /\ err = "none"
                 /\ HasColumn(df, "Appliances_capped")
                 /\ Len(df.col["Appliances_capped"]) = NRows(before)
                 /\ \A r \in 1..NRows(before) :
                       IsNull(df.col["Appliances_capped"][r])
        /\ ~HasColumn(before, "Appliances") =>
                 (err = "KeyError" /\ df = before /\ pc = "raised")

C7_Witness ==
    /\ LastStage = "handle_outliers"
    /\ HasColumn(before, "Appliances") /\ ~HasColumn(before, "Appliances_capped")
    /\ NRows(before) >= 2
    /\ Dropna(before.col["Appliances"]) = <<>>
    /\ HasColumn(df, "Appliances_capped")

\* A column is constant: no cell is missing and every row holds one value.
IsConstant(s) ==
    /\ Len(s) >= 1
    /\ \A i \in 1..Len(s) : s[i].kind = "num" /\ SameValue(s[i], s[1])

\* The columns scale_features selects, stated on the table: no cell of the
\* column is a string, and the column is neither the target nor its capped
\* derivative.
Selected(t) ==
    {c \in Range(t.columns) :
        /\ c \notin {"Appliances", "Appliances_capped"}
        /\ \A i \in 1..Len(t.col[c]) : t.col[c][i].kind \in {"nan", "num"}}

\* C8 as stated: scale_features on a table with a constant selected column
\* raises (DegenerateScaleError).
C8_ConstantColumnRaises ==
    (LastStage = "scale_features"
        /\ \E c \in Selected(before) : IsConstant(before.col[c])) =>
        err # "none"

\* C8 as amended: scale_features on a table with a constant selected column
\* raises nothing; the '_scaled' column of every constant selected column holds
\* 0 in every row, never NaN or Inf.
C8_ConstantColumnScaledToZero ==
    LastStage = "scale_features" =>
        \A c \in Selected(before) :
            IsConstant(before.col[c]) =>
                /\ err = "none"
                /\ HasColumn(df, c \o "_scaled")
                /\ Len(df.col[c \o "_scaled"]) = NRows(before)
                /\ \A r \in 1..NRows(before) :
                      SameValue(df.col[c \o "_scaled"][r], Num(0))

C8_Witness ==
    /\ LastStage = "scale_features" /\ err = "none"
    /\ HasColumn(before, "T1") /\ ~HasColumn(before, "T1_scaled")
    /\ before.col["T1"] = <<Num(2), Num(2)>>
    /\ df.col["T1_scaled"] = <<Num(0), Num(0)>>

IsPrefix(s, t) == Len(s) <= Len(t) /\ SubSeq(t, 1, Len(s)) = s

AllRows(t, n) == \A c \in Range(t.columns) : Len(t.col[c]) = n

Unchanged(c) == SameColumn(df.col[c], before.col[c])

\* C9 as stated: every stage only appends columns, keeps the row count, and
\* handle_outliers and scale_features leave the values of every column that
\* existed before the call unchanged.
C9_StagesOnlyAppend ==
    /\ IsPrefix(before.columns, df.columns)
    /\ AllRows(df, NRows(before))
    /\ LastStage \in {"handle_outliers", "scale_features"} =>
          \A c \in Range(before.columns) : Unchanged(c)

\* C9 as amended: every stage keeps the existing columns in place and the row
\* count; handle_outliers changes the values of no existing column other than
\* 'Appliances_capped', scale_features of none other than the '<col>_scaled'
\* columns of the columns it selects; 'Appliances' is changed by neither.
C9_StagesAppendOrOverwriteDerived ==
    /\ IsPrefix(before.columns, df.columns)
    /\ AllRows(df, NRows(before))
    /\ LastStage = "handle_outliers" =>
          \A c \in Range(before.columns) \ {"Appliances_capped"} : Unchanged(c)
    /\ LastStage = "scale_features" =>
          \A c \in Range(before.columns) \
                    {d \o "_scaled" : d \in Selected(before)} : Unchanged(c)
    /\ (LastStage \in {"handle_outliers", "scale_features"}
          /\ HasColumn(before, "Appliances")) => Unchanged("Appliances")

C9_Witness ==
    /\ LastStage = "scale_features" /\ err = "none"
    /\ HasColumn(before, "T1_scaled")
    /\ ~Unchanged("T1_scaled")
    /\ Unchanged("T1")

\* The '_scaled' names of the selected columns, in the table's column order.
ScaledNames(t) ==
    LET sel == SelectSeq(t.columns, LAMBDA c : c \in Selected(t))
    IN [i \in 1..Len(sel) |-> sel[i] \o "_scaled"]

\* C10 as stated: scale_features appends exactly one '<col>_scaled' column per
\* selected column, in the table's column order.
C10_AppendsOnePerSelected ==
    LastStage = "scale_features" =>
        df.columns = before.columns \o ScaledNames(before)

\* C10 as amended: scale_features assigns exactly one '<col>_scaled' column per
\* selected column: one that does not exist yet is appended, in the table's
\* column order, one that exists is overwritten in place; nothing else is
\* created, so no 'Appliances_scaled', no 'Appliances_capped_scaled' and no
\* '_scaled' column of a non-numeric column; the columns after the call are
\* determined by the column names and dtypes before it.
C10_AssignsOnePerSelected ==
    LastStage = "scale_features" =>
        /\ df.columns =
              before.columns \o
              SelectSeq(ScaledNames(before), LAMBDA n : ~HasColumn(before, n))
        /\ \A c \in Selected(before) :
              Cardinality({i \in 1..Len(df.columns) :
                              df.columns[i] = c \o "_scaled"}) = 1
        /\ \A c \in Range(before.columns) \ Selected(before) :
              HasColumn(df, c \o "_scaled") => HasColumn(before, c \o "_scaled")
        /\ ~HasColumn(df, "Appliances_scaled")
        /\ ~HasColumn(df, "Appliances_capped_scaled")

C10_Witness ==
    /\ LastStage = "scale_features" /\ err = "none"
    /\ before.columns = <<"Appliances", "lights", "T1", "Appliances_capped">>
    /\ df.columns = <<"Appliances", "lights", "T1", "Appliances_capped",
                      "lights_scaled", "T1_scaled">>

====
